---- MODULE Spec2Model ----
(***************************************************************************)
(* GitLab -> MongoDB synchronisation engine of afonsystem                  *)
(* (src/services/gitlab-sync.js, src/web/services/scheduler.js).           *)
(*                                                                         *)
(* A JavaScript object is a function from property names to values; a      *)
(* property the object does not carry is a name outside its DOMAIN.        *)
(* An action is one resumption of an async function: the response of the   *)
(* operation it awaited arrives, and the code runs on to its next await    *)
(* (where it issues the next fetch or database call) or to its return.     *)
(***************************************************************************)
EXTENDS Integers, Sequences, FiniteSets, TLC

VARIABLES
    store,      \* the five MongoDB collections: [Collections -> Seq(document)]
    runs,       \* the activations of runSync: [RunIds -> run record]
    remote,     \* what GitLab has answered since it last changed: [Urls -> listing]
    triggers,   \* how many times the cron callback has fired
    served,     \* how many non-empty pages GitLab has made up
    changes,    \* how many times a remote listing has changed
    last,       \* the run that ended last: its outcome and the store it left
    prev,       \* the run that ended before it
    process     \* the Node process: up, closing the database client, or exited

vars == <<store, runs, remote, triggers, served, changes, last, prev, process>>

-----------------------------------------------------------------------------
(* Bounds of the model *)

MaxProjects == 2    \* project ids the remote may list
MaxKey      == 1    \* member / commit / merge-request / issue ids per project
MaxVariant  == 2    \* distinct field contents the remote may give one record
MaxPageLen  == 1    \* records on one page
MaxPages    == 2    \* non-empty pages of one listing
MaxRuns     == 2    \* activations of runSync that may overlap
MaxTriggers == 2    \* cron firings in one behaviour
MaxRepeats  == 3    \* cron firings in one behaviour of SpecRepeat
MaxData     == 3    \* non-empty pages the remote makes up in one behaviour
MaxChanges  == 1    \* changes of a remote listing in one behaviour

(* Program constants *)
PerPage == 100

ProjectIds == 1..MaxProjects
Keys       == 1..MaxKey
Variants   == 1..MaxVariant
RunIds     == 1..MaxRuns

Null == "null"

Collections == <<"projects", "members", "commits", "merge_requests", "issues">>
CollectionSet == {Collections[i] : i \in 1..Len(Collections)}

NoObj == [x \in {} |-> 0]

-----------------------------------------------------------------------------
(* The remote API: the records GitLab may answer with.  Record k of a kind,
   in its v-th state: v selects which optional properties are present and
   what the mutable ones hold. *)

RemoteProject(id, v) ==
    [id |-> id, name |-> "proj", path_with_namespace |-> "grp/proj",
     created_at |-> "2024-01-01", web_url |-> "https://gitlab/grp/proj",
     visibility |-> "private"]
    @@ (IF v % 2 = 0 THEN [description |-> "about", default_branch |-> "main"]
                     ELSE [description |-> Null])

RemoteMember(k, v) ==
    [id |-> k, username |-> "ana", name |-> "Ana", access_level |-> 10 * v,
     state |-> "active"]

RemoteCommit(k, v) ==
    [id |-> k, short_id |-> k, author_name |-> "Ana",
     author_email |-> "ana@x", committed_date |-> "2024-01-02",
     message |-> "fix", title |-> "fix"]
    @@ (IF v = 1 THEN NoObj
        ELSE [stats |-> [additions |-> v, deletions |-> v - 2,
                         total |-> 2 * v - 2]])

RemoteMergeRequest(k, v) ==
    [iid |-> k, title |-> "mr", created_at |-> "2024-01-03",
     source_branch |-> "feat", target_branch |-> "main", id |-> 100 + k]
    @@ (CASE v % 3 = 1 -> [state |-> "opened", merged_at |-> Null,
                           closed_at |-> Null, merge_commit_sha |-> Null,
                           author |-> [username |-> "ana", name |-> "Ana"]]
          [] v % 3 = 2 -> [state |-> "merged", merged_at |-> "2024-01-04",
                           closed_at |-> Null, merge_commit_sha |-> "abc",
                           author |-> [username |-> "ana", name |-> "Ana"]]
          [] OTHER     -> [state |-> "closed", closed_at |-> "2024-01-05"])

RemoteIssue(k, v) ==
    [iid |-> k, title |-> "issue", created_at |-> "2024-01-03", id |-> 200 + k]
    @@ (IF v % 2 = 1
        THEN [state |-> "opened", closed_at |-> Null,
              author |-> [username |-> "ana", name |-> "Ana"]]
        ELSE [state |-> "closed", closed_at |-> "2024-01-06",
              labels |-> <<"bug">>,
              assignees |-> <<[username |-> "bob", name |-> "Bob", id |-> 7]>>])

RemoteRecs(kind) ==
    CASE kind = "projects"       -> {RemoteProject(p, v) : p \in ProjectIds, v \in Variants}
      [] kind = "members"        -> {RemoteMember(k, v) : k \in Keys, v \in Variants}
      [] kind = "commits"        -> {RemoteCommit(k, v) : k \in Keys, v \in Variants}
      [] kind = "merge_requests" -> {RemoteMergeRequest(k, v) : k \in Keys, v \in Variants}
      [] kind = "issues"         -> {RemoteIssue(k, v) : k \in Keys, v \in Variants}

(* The pages the remote may answer one request with. *)
PagesOf(kind) == UNION {[1..n -> RemoteRecs(kind)] : n \in 0..MaxPageLen}

(* GitLab's listings.  A listing is known as far as it has been asked for:
   the pages answered so far, and whether the empty page that ends it has
   been answered.  A page once answered stays the same until the listing
   changes (RemoteChange), which forgets it; a page never asked for is made
   up when it is first fetched. *)
Kinds == {"members", "commits", "merge_requests", "issues"}
Urls == {<<"projects", 0>>} \cup (Kinds \X ProjectIds)
Unknown == [pages |-> <<>>, done |-> FALSE]

Answers(listing, kind, page) ==
    IF page <= Len(listing.pages) THEN {listing.pages[page]}
    ELSE IF listing.done \/ page > MaxPages \/ served >= MaxData THEN {<<>>}
    ELSE PagesOf(kind)

Learned(listing, page, data) ==
    IF page # Len(listing.pages) + 1 \/ listing.done THEN listing
    ELSE IF Len(data) = 0 THEN [listing EXCEPT !.done = TRUE]
    ELSE [listing EXCEPT !.pages = Append(@, data)]

(* The HTTP responses: res.ok is true for a status in 200..299. *)
ErrorStatuses == {[status |-> 500, statusText |-> "Internal Server Error"],
                  [status |-> 404, statusText |-> "Not Found"]}
ResOk(status) == status >= 200 /\ status <= 299

-----------------------------------------------------------------------------
(* JavaScript's  x || d  on an optional property *)

OrNull(o, f) == IF f \in DOMAIN o /\ o[f] # Null /\ o[f] # "" THEN o[f] ELSE Null
OrZero(o, f) == IF f \in DOMAIN o /\ o[f] # 0 THEN o[f] ELSE 0
OrEmptyObj(o, f) == IF f \in DOMAIN o THEN o[f] ELSE NoObj
OrEmptyList(o, f) == IF f \in DOMAIN o THEN o[f] ELSE <<>>

(* The documents the syncers build from a remote record *)

ProjectDoc(project) ==
    [project_id |-> project.id,
     name |-> project.name,
     path_with_namespace |-> project.path_with_namespace,
     description |-> OrNull(project, "description"),
     created_at |-> project.created_at,
     default_branch |-> OrNull(project, "default_branch"),
     web_url |-> project.web_url]

MemberDoc(projectId, m) ==
    [project_id |-> projectId,
     user_id |-> m.id,
     username |-> m.username,
     name |-> m.name,
     access_level |-> m.access_level]

CommitStats(c) == OrEmptyObj(c, "stats")

(* syncCommits without the  || 0  defaults: the statistics are copied when the
   remote gave them and left undefined otherwise *)
CommitDocNoDefault(projectId, c) ==
    [project_id |-> projectId,
     sha |-> c.id,
     short_id |-> c.short_id,
     author_name |-> c.author_name,
     author_email |-> c.author_email,
     committed_date |-> c.committed_date,
     message |-> c.message]
    @@ (IF "stats" \in DOMAIN c
        THEN [additions |-> c.stats.additions, deletions |-> c.stats.deletions,
              total |-> c.stats.total]
        ELSE NoObj)

CommitDoc(projectId, c) ==
    LET stats == CommitStats(c) IN
    [project_id |-> projectId,
     sha |-> c.id,
     short_id |-> c.short_id,
     author_name |-> c.author_name,
     author_email |-> c.author_email,
     committed_date |-> c.committed_date,
     message |-> c.message,
     additions |-> OrZero(stats, "additions"),
     deletions |-> OrZero(stats, "deletions"),
     total |-> OrZero(stats, "total")]

MergeRequestDoc(projectId, mr) ==
    LET author == OrEmptyObj(mr, "author") IN
    [project_id |-> projectId,
     iid |-> mr.iid,
     title |-> mr.title,
     author_username |-> OrNull(author, "username"),
     author_name |-> OrNull(author, "name"),
     state |-> mr.state,
     created_at |-> mr.created_at,
     merged_at |-> OrNull(mr, "merged_at"),
     closed_at |-> OrNull(mr, "closed_at"),
     source_branch |-> mr.source_branch,
     target_branch |-> mr.target_branch,
     merge_commit_sha |-> OrNull(mr, "merge_commit_sha")]

IssueAssignees(issue) ==
    LET as == OrEmptyList(issue, "assignees") IN
    [i \in 1..Len(as) |-> [username |-> as[i].username, name |-> as[i].name]]

IssueDoc(projectId, issue) ==
    LET author == OrEmptyObj(issue, "author") IN
    [project_id |-> projectId,
     iid |-> issue.iid,
     title |-> issue.title,
     author_username |-> OrNull(author, "username"),
     author_name |-> OrNull(author, "name"),
     assignees |-> IssueAssignees(issue),
     state |-> issue.state,
     labels |-> OrEmptyList(issue, "labels"),
     created_at |-> issue.created_at,
     closed_at |-> OrNull(issue, "closed_at")]

(* The filter of each upsert: the natural key *)
ProjectFilter(doc) == [project_id |-> doc.project_id]
MemberFilter(projectId, m) == [project_id |-> projectId, user_id |-> m.id]
CommitFilter(projectId, c) == [project_id |-> projectId, sha |-> c.id]
MergeRequestFilter(projectId, mr) == [project_id |-> projectId, iid |-> mr.iid]
IssueFilter(projectId, issue) == [project_id |-> projectId, iid |-> issue.iid]

UpsertOp(filter, doc) == [filter |-> filter, set |-> doc]

MemberOps(projectId, members) ==
    [i \in 1..Len(members) |->
        UpsertOp(MemberFilter(projectId, members[i]), MemberDoc(projectId, members[i]))]
CommitOps(projectId, commits) ==
    [i \in 1..Len(commits) |->
        UpsertOp(CommitFilter(projectId, commits[i]), CommitDoc(projectId, commits[i]))]
MergeRequestOps(projectId, mrs) ==
    [i \in 1..Len(mrs) |->
        UpsertOp(MergeRequestFilter(projectId, mrs[i]), MergeRequestDoc(projectId, mrs[i]))]
IssueOps(projectId, issues) ==
    [i \in 1..Len(issues) |->
        UpsertOp(IssueFilter(projectId, issues[i]), IssueDoc(projectId, issues[i]))]

(* the operations with those on a key that comes again later left out *)
OpsOfDistinct(kind, projectId, recs) ==
    LET all == CASE kind = "members"        -> MemberOps(projectId, recs)
                 [] kind = "commits"        -> CommitOps(projectId, recs)
                 [] kind = "merge_requests" -> MergeRequestOps(projectId, recs)
                 [] kind = "issues"         -> IssueOps(projectId, recs)
        kept[n \in 0..Len(all)] ==
            IF n = 0 THEN <<>>
            ELSE IF \E j \in (n + 1)..Len(all) : all[j].filter = all[n].filter
                 THEN kept[n - 1]
                 ELSE Append(kept[n - 1], all[n])
    IN kept[Len(all)]

OpsOf(kind, projectId, recs) ==
    CASE kind = "members"        -> MemberOps(projectId, recs)
      [] kind = "commits"        -> CommitOps(projectId, recs)
      [] kind = "merge_requests" -> MergeRequestOps(projectId, recs)
      [] kind = "issues"         -> IssueOps(projectId, recs)

-----------------------------------------------------------------------------
(* MongoDB: a collection is the sequence of its documents in insertion order.
   updateOne(filter, {$set: doc}, {upsert: true}) changes the first document
   that matches the filter, or inserts the filter's fields with the $set
   applied when none matches. *)

Matches(d, filter) == \A f \in DOMAIN filter : f \in DOMAIN d /\ d[f] = filter[f]

Matching(coll, filter) == {i \in 1..Len(coll) : Matches(coll[i], filter)}

FirstMatch(coll, filter) ==
    CHOOSE i \in Matching(coll, filter) : \A j \in Matching(coll, filter) : i <= j

(* insertOne in place of the upsert: the document is always added *)
InsertOne(coll, filter, set) == Append(coll, set @@ filter)

(* $setOnInsert in place of $set: a document that matches is left as it is *)
UpsertKeepExisting(coll, filter, set) ==
    IF Matching(coll, filter) # {} THEN coll ELSE Append(coll, set @@ filter)

(* the collection emptied before the document is written *)
ReplaceCollection(coll, filter, set) == <<set @@ filter>>

(* updateOne with no upsert: a document is changed when one matches, and
   nothing is inserted *)
UpdateOnly(coll, filter, set) ==
    IF Matching(coll, filter) # {}
    THEN [coll EXCEPT ![FirstMatch(coll, filter)] = set @@ @]
    ELSE coll

UpdateOneUpsert(coll, filter, set) ==
    IF Matching(coll, filter) # {}
    THEN [coll EXCEPT ![FirstMatch(coll, filter)] = set @@ @]
    ELSE Append(coll, set @@ filter)

(* insertMany in place of the bulk of upserts *)
InsertMany(coll, ops) ==
    coll \o [i \in 1..Len(ops) |-> ops[i].set @@ ops[i].filter]

(* a bulk of inserts that passes over the keys already stored *)
BulkInsertNew(coll, ops) ==
    LET done[n \in 0..Len(ops)] ==
            IF n = 0 THEN coll
            ELSE IF Matching(done[n - 1], ops[n].filter) # {}
                 THEN done[n - 1]
                 ELSE Append(done[n - 1], ops[n].set @@ ops[n].filter)
    IN done[Len(ops)]

(* bulkWrite(ops), ordered: the operations one after the other *)
RECURSIVE BulkWrite(_, _)
BulkWrite(coll, ops) ==
    IF ops = <<>> THEN coll
    ELSE BulkWrite(UpdateOneUpsert(coll, Head(ops).filter, Head(ops).set), Tail(ops))

-----------------------------------------------------------------------------
(* The operations a run awaits *)

PathOf(kind) ==
    CASE kind = "projects"       -> "/api/v4/projects"
      [] kind = "members"        -> "/api/v4/projects/:id/members/all"
      [] kind = "commits"        -> "/api/v4/projects/:id/repository/commits"
      [] kind = "merge_requests" -> "/api/v4/projects/:id/merge_requests"
      [] kind = "issues"         -> "/api/v4/projects/:id/issues"

Url(kind, pid) == [path |-> PathOf(kind), id |-> pid]

FetchOp(kind, pid, page) ==
    [op |-> "fetch", kind |-> kind, pid |-> pid, page |-> page, per_page |-> PerPage]
UpdateOneOp(pid, filter) ==
    [op |-> "updateOne", kind |-> "projects", pid |-> pid, docs |-> 1,
     filters |-> {filter}]
(* syncMergeRequests writing to the collection of syncIssues *)
BulkWriteOpIssues(kind, pid, ops) ==
    [op |-> "bulkWrite", kind |-> IF kind = "merge_requests" THEN "issues" ELSE kind,
     pid |-> pid, docs |-> Len(ops),
     filters |-> {ops[i].filter : i \in 1..Len(ops)}]

BulkWriteOp(kind, pid, ops) ==
    [op |-> "bulkWrite", kind |-> kind, pid |-> pid, docs |-> Len(ops),
     filters |-> {ops[i].filter : i \in 1..Len(ops)}]
CountOp(col) ==
    [op |-> "countDocuments", kind |-> col]

IsWrite(op) == op.op \in {"updateOne", "bulkWrite"}
IsDb(op) == op.op \in {"updateOne", "bulkWrite", "countDocuments"}

(* One activation of runSync: where it is suspended (pc), the locals of the
   functions on its stack, the operations it has issued and not yet seen
   settled (inflight), every operation it issued (log), and what it wrote
   to the console (found, n, counts, err). *)

NewRun ==
    [pc |-> "Idle", page |-> 0, results |-> <<>>, projects |-> <<>>, idx |-> 0,
     ops |-> <<>>, col |-> 0, found |-> 0, n |-> 0, counts |-> <<>>,
     err |-> <<>>, inflight |-> {}, log |-> <<>>, gen |-> 0,
     res |-> [status |-> 0, statusText |-> ""]]

Issue(s, op) == [s EXCEPT !.inflight = @ \cup {op}, !.log = Append(@, op)]
Settle(s, op) == [s EXCEPT !.inflight = @ \ {op}]

(* The locals of a returned call are gone *)
Return(s, state) ==
    [s EXCEPT !.pc = state, !.page = 0, !.results = <<>>, !.projects = <<>>,
              !.idx = 0, !.ops = <<>>, !.col = 0]

CurrentProject(s) == s.projects[s.idx]

(* paginatedGet up to its first await *)
PaginatedGet(s, kind, pid) ==
    Issue([s EXCEPT !.pc = kind, !.page = 1, !.results = <<>>, !.ops = <<>>],
          FetchOp(kind, pid, 1))

(* runSync after syncProjects returned: the summary loop *)
CountCollection(s, i) ==
    Issue([s EXCEPT !.pc = "summary", !.col = i], CountOp(Collections[i]))

(* the head of  for (const project of projects) *)
NextProject(s) ==
    IF s.idx <= Len(s.projects)
    THEN Issue([s EXCEPT !.pc = "saveProject"],
               UpdateOneOp(CurrentProject(s).id, ProjectFilter(ProjectDoc(CurrentProject(s)))))
    ELSE CountCollection(s, 1)

(* syncProjects with the commit sync and the merge-request sync exchanged *)
AfterSyncSwapped(s, kind, n) ==
    LET t == [s EXCEPT !.n = n] IN
    CASE kind = "members"        -> PaginatedGet(t, "merge_requests", CurrentProject(s).id)
      [] kind = "merge_requests" -> PaginatedGet(t, "commits", CurrentProject(s).id)
      [] kind = "commits"        -> PaginatedGet(t, "issues", CurrentProject(s).id)
      [] kind = "issues"         -> NextProject([t EXCEPT !.idx = @ + 1, !.results = <<>>, !.ops = <<>>])

(* syncProjects after the syncer of `kind` returned n *)
AfterSync(s, kind, n) ==
    LET t == [s EXCEPT !.n = n] IN
    CASE kind = "members"        -> PaginatedGet(t, "commits", CurrentProject(s).id)
      [] kind = "commits"        -> PaginatedGet(t, "merge_requests", CurrentProject(s).id)
      [] kind = "merge_requests" -> PaginatedGet(t, "issues", CurrentProject(s).id)
      [] kind = "issues"         -> NextProject([t EXCEPT !.idx = @ + 1, !.results = <<>>, !.ops = <<>>])

(* the syncers without  if (!list.length) return 0 : an empty listing goes
   to bulkWrite as an empty batch *)
AfterListAlwaysWrite(s) ==
    IF s.pc = "projects"
    THEN NextProject([s EXCEPT !.projects = s.results, !.found = Len(s.results),
                               !.idx = 1, !.results = <<>>])
    ELSE LET ops == OpsOf(s.pc, CurrentProject(s).id, s.results) IN
         Issue([s EXCEPT !.ops = ops],
               BulkWriteOp(s.pc, CurrentProject(s).id, ops))

(* the caller of paginatedGet once it returned s.results *)
AfterList(s) ==
    IF s.pc = "projects"
    THEN NextProject([s EXCEPT !.projects = s.results, !.found = Len(s.results),
                               !.idx = 1, !.results = <<>>])
    ELSE IF Len(s.results) = 0
         THEN AfterSync(s, s.pc, 0)
         ELSE LET ops == OpsOf(s.pc, CurrentProject(s).id, s.results) IN
              Issue([s EXCEPT !.ops = ops],
                    BulkWriteOp(s.pc, CurrentProject(s).id, ops))

(* paginatedGet that takes a page shorter than per_page for the last one *)
OnPageShort(s, op, data) ==
    IF Len(data) = 0
    THEN AfterList(Settle(s, op))
    ELSE IF Len(data) < PerPage
    THEN AfterList([Settle(s, op) EXCEPT !.results = @ \o data])
    ELSE Issue([Settle(s, op) EXCEPT !.results = @ \o data, !.page = @ + 1],
               FetchOp(op.kind, op.pid, s.page + 1))

(* paginatedGet after  await res.json() *)
OnPage(s, op, data) ==
    IF Len(data) = 0
    THEN AfterList(Settle(s, op))
    ELSE Issue([Settle(s, op) EXCEPT !.results = @ \o data, !.page = @ + 1],
               FetchOp(op.kind, op.pid, s.page + 1))

(* the response of the fetch awaited last *)
Got(s, res) == [s EXCEPT !.res = [status |-> res.status, statusText |-> res.statusText]]
OkResponse == [status |-> 200, statusText |-> "OK"]

(* the error of paginatedGet without the response's status in its message *)
FetchErrorNoStatus(op, res) ==
    [name |-> "GitLab API error", status |-> 0, statusText |-> "",
     url |-> Url(op.kind, op.pid)]

FetchErrorOf(op, res) ==
    [name |-> "GitLab API error", status |-> res.status,
     statusText |-> res.statusText, url |-> Url(op.kind, op.pid)]
DbErrorOf(op) ==
    [name |-> "MongoError", status |-> 0, statusText |-> "", url |-> Url(op.kind, 0)]

(* a catch around each syncer call in syncProjects: the error of a syncer is
   logged and the loop goes on with the next step *)
CatchInLoop(s, err) ==
    IF s.pc \in Kinds
    THEN AfterSync([s EXCEPT !.err = <<err>>], s.pc, 0)
    ELSE [Return(s, "Failed") EXCEPT !.err = <<err>>]

(* a catch that reports the run as completed *)
CatchAsCompleted(s, err) == [Return(s, "Idle") EXCEPT !.err = <<err>>]

(* a syncer that, when a page of its listing fails, writes the records of
   the pages it already has before the error goes up *)
CatchFlush(s, err) ==
    IF s.pc \in Kinds /\ err.name = "GitLab API error" /\ s.results # <<>>
    THEN LET ops == OpsOf(s.pc, CurrentProject(s).id, s.results) IN
         Issue([s EXCEPT !.ops = ops, !.err = <<err>>],
               BulkWriteOp(s.pc, CurrentProject(s).id, ops))
    ELSE [Return(s, "Failed") EXCEPT !.err = <<err>>]

(* syncProjects that, when a page of the project listing fails, goes on with
   the projects of the pages it already has *)
CatchKeepGoing(s, err) ==
    IF s.pc = "projects" /\ err.name = "GitLab API error" /\ s.results # <<>>
    THEN AfterList([s EXCEPT !.err = <<err>>])
    ELSE [Return(s, "Failed") EXCEPT !.err = <<err>>]

(* runSync's catch *)
Catch(s, err) == [Return(s, "Failed") EXCEPT !.err = <<err>>]

-----------------------------------------------------------------------------
EmptyStore == [c \in CollectionSet |-> <<>>]

(* What is remembered of a run that ended.  complete: it ended in Idle and
   no remote listing changed from its start to its end; then gen is the
   generation of the remote it ran against, store the store it left and
   counts what its summary printed.  Of any other run only whether it failed
   is kept. *)
NoRun == [complete |-> FALSE, failed |-> FALSE, gen |-> 0,
          store |-> EmptyStore, counts |-> <<>>]
Ended(s, st, ch) ==
    IF s.pc = "Idle" /\ s.gen = ch
    THEN [complete |-> TRUE, failed |-> FALSE, gen |-> s.gen, store |-> st,
          counts |-> s.counts]
    ELSE [NoRun EXCEPT !.failed = (s.pc = "Failed")]

Running(s) == s.pc \notin {"Idle", "Failed"}

(* the bookkeeping of a step of run r: the history moves on when r ends *)
Record(r) ==
    IF Running(runs[r]) /\ ~Running(runs'[r])
    THEN last' = Ended(runs'[r], store', changes') /\ prev' = last
    ELSE UNCHANGED <<last, prev>>

(* The process before any signal.  at: how many operations each run had
   issued when the signal arrived. *)
Up == [state |-> "up", at |-> [r \in RunIds |-> 0]]

Init ==
    /\ store = EmptyStore
    /\ last = NoRun
    /\ prev = NoRun
    /\ runs = [r \in RunIds |-> NewRun]
    /\ remote = [u \in Urls |-> Unknown]
    /\ triggers = 0
    /\ served = 0
    /\ changes = 0
    /\ process = Up

(* cron fires: runSync() runs up to the first fetch of the project listing *)
Trigger(r) ==
    /\ runs[r].pc \in {"Idle", "Failed"}
    /\ triggers' = triggers + 1
    /\ runs' = [runs EXCEPT ![r] = PaginatedGet([NewRun EXCEPT !.gen = changes], "projects", 0)]
    /\ UNCHANGED <<store, remote, served, changes, last, prev, process>>

(* a fetch answers with a success status and a page *)
FetchOk(r) ==
    \E op \in runs[r].inflight :
        /\ op.op = "fetch"
        /\ LET u == <<op.kind, op.pid>> IN
           \E data \in Answers(remote[u], op.kind, op.page) :
              /\ remote' = [remote EXCEPT ![u] = Learned(@, op.page, data)]
              /\ served' = IF remote'[u].pages # remote[u].pages THEN served + 1 ELSE served
              /\ ResOk(OkResponse.status)
              /\ runs' = [runs EXCEPT ![r] = OnPage(Got(runs[r], OkResponse), op, data)]
        /\ UNCHANGED <<store, triggers, changes, process>>
        /\ Record(r)

(* a fetch answers with a non-success status *)
FetchError(r) ==
    \E op \in runs[r].inflight :
        /\ op.op = "fetch"
        /\ \E res \in ErrorStatuses :
              /\ ~ResOk(res.status)
              /\ runs' = [runs EXCEPT ![r] =
                            Catch(Settle(Got(runs[r], res), op), FetchErrorOf(op, res))]
        /\ UNCHANGED <<store, remote, triggers, served, changes, process>>
        /\ Record(r)

(* updateOne of the project document resolves *)
UpdateOk(r) ==
    \E op \in runs[r].inflight :
        /\ op.op = "updateOne"
        /\ LET doc == ProjectDoc(CurrentProject(runs[r])) IN
           store' = [store EXCEPT !["projects"] = UpdateOneUpsert(@, ProjectFilter(doc), doc)]
        /\ runs' = [runs EXCEPT ![r] = PaginatedGet(Settle(runs[r], op), "members", op.pid)]
        /\ UNCHANGED <<remote, triggers, served, changes, process>>
        /\ Record(r)

(* bulkWrite of a syncer resolves *)
BulkOk(r) ==
    \E op \in runs[r].inflight :
        /\ op.op = "bulkWrite"
        /\ store' = [store EXCEPT ![op.kind] = BulkWrite(@, runs[r].ops)]
        /\ runs' = [runs EXCEPT ![r] = AfterSync(Settle(runs[r], op), op.kind, Len(runs[r].ops))]
        /\ UNCHANGED <<remote, triggers, served, changes, process>>
        /\ Record(r)

(* countDocuments of the summary resolves *)
CountOk(r) ==
    \E op \in runs[r].inflight :
        /\ op.op = "countDocuments"
        /\ LET s == Settle(runs[r], op)
               t == [s EXCEPT !.counts = Append(@, Len(store[op.kind]))] IN
           runs' = [runs EXCEPT ![r] =
                       IF s.col < Len(Collections)
                       THEN CountCollection(t, s.col + 1)
                       ELSE Return(t, "Idle")]
        /\ UNCHANGED <<store, remote, triggers, served, changes, process>>
        /\ Record(r)

(* a database call rejects *)
DbError(r) ==
    \E op \in runs[r].inflight :
        /\ IsDb(op)
        /\ runs' = [runs EXCEPT ![r] = Catch(Settle(runs[r], op), DbErrorOf(op))]
        /\ UNCHANGED <<store, remote, triggers, served, changes, process>>
        /\ Record(r)

(* a listing of GitLab changes: what it answered before is forgotten.  A
   change is seen by the program only through the next fetch of the listing,
   so it is taken between two runs or while a fetch of the listing is awaited. *)
RemoteChange(u) ==
    /\ changes < MaxChanges
    /\ remote[u] # Unknown
    /\ \/ \A r \in RunIds : ~Running(runs[r])
       \/ \E r \in RunIds : \E op \in runs[r].inflight :
             op.op = "fetch" /\ <<op.kind, op.pid>> = u
    /\ remote' = [remote EXCEPT ![u] = Unknown]
    /\ changes' = changes + 1
    /\ UNCHANGED <<store, runs, triggers, served, last, prev, process>>

(* the daily cadence, when it outlasts a run: cron fires with no run in
   progress *)
Quiet(r) ==
    /\ \A q \in RunIds : ~Running(runs[q])
    /\ \A q \in RunIds : r <= q

Cron(r) ==
    /\ triggers < MaxTriggers
    /\ Quiet(r)
    /\ Trigger(r)

Next ==
    \/ \E u \in Urls : RemoteChange(u)
    \/ \E r \in RunIds :
        \/ Cron(r)
        \/ FetchOk(r)
        \/ FetchError(r)
        \/ UpdateOk(r)
        \/ BulkOk(r)
        \/ CountOk(r)
        \/ DbError(r)

Spec == Init /\ [][Next]_vars

(* One more firing, and no database error: a run on what an earlier run,
   complete or cut short by a fetch error, left in the store, and its
   repetition. *)
CronRepeat(r) ==
    /\ triggers < MaxRepeats
    /\ Quiet(r)
    /\ Trigger(r)

NextRepeat ==
    \/ \E u \in Urls : RemoteChange(u)
    \/ \E r \in RunIds :
        \/ CronRepeat(r)
        \/ FetchOk(r)
        \/ FetchError(r)
        \/ UpdateOk(r)
        \/ BulkOk(r)
        \/ CountOk(r)

SpecRepeat == Init /\ [][NextRepeat]_vars

(* The cadence as scheduler.js sets it up: the callback calls runSync() at
   every firing and looks at nothing, so a firing may find the run of an
   earlier firing still awaiting a fetch or a write.  The activations are
   taken in the order of RunIds. *)
Fire(r) ==
    /\ triggers < MaxTriggers
    /\ \A q \in RunIds : q < r => runs[q].log # <<>>
    /\ Trigger(r)

NextOverlap ==
    \E r \in RunIds :
        \/ Fire(r)
        \/ FetchOk(r)
        \/ UpdateOk(r)
        \/ BulkOk(r)
        \/ CountOk(r)

SpecOverlap == Init /\ [][NextOverlap]_vars

(* SIGINT or SIGTERM arrives: the handler of app.js calls closeDB() and
   awaits it.  Nothing tells runSync: while client.close() is awaited the
   run goes on with whatever answers arrive, its database calls resolving or
   rejecting. *)
Signal ==
    /\ process.state = "up"
    /\ process' = [state |-> "closing", at |-> [r \in RunIds |-> Len(runs[r].log)]]
    /\ UNCHANGED <<store, runs, remote, triggers, served, changes, last, prev>>

(* closeDB() has resolved: process.exit(0).  Whatever a run awaits is
   abandoned. *)
Exit ==
    /\ process.state = "closing"
    /\ process' = [process EXCEPT !.state = "exited"]
    /\ UNCHANGED <<store, runs, remote, triggers, served, changes, last, prev>>

NextShutdown ==
    \/ Signal
    \/ Exit
    \/ \E r \in RunIds : process.state = "up" /\ Cron(r)
    \/ \E r \in RunIds : process.state # "exited" /\ FetchOk(r)
    \/ \E r \in RunIds : process.state # "exited" /\ UpdateOk(r)
    \/ \E r \in RunIds : process.state # "exited" /\ BulkOk(r)
    \/ \E r \in RunIds : process.state # "exited" /\ CountOk(r)
    \/ \E r \in RunIds : process.state = "closing" /\ DbError(r)

SpecShutdown == Init /\ [][NextShutdown]_vars

(* The data of a project changes on GitLab between two runs: every record
   the remote has listed for it (its entry in the project listing, its
   members, commits, merge requests and issues) is the same record, under
   the same id, with other contents.  What the remote will answer is known
   here before the next run asks for it. *)
RemoteKey(kind, rec) ==
    IF kind \in {"merge_requests", "issues"} THEN rec.iid ELSE rec.id

RemoteOf(kind, k, v) ==
    CASE kind = "projects"       -> RemoteProject(k, v)
      [] kind = "members"        -> RemoteMember(k, v)
      [] kind = "commits"        -> RemoteCommit(k, v)
      [] kind = "merge_requests" -> RemoteMergeRequest(k, v)
      [] kind = "issues"         -> RemoteIssue(k, v)

(* the record of the same id in state v, or in another state when that is
   the one it is in *)
Altered(kind, rec, v) ==
    LET k == RemoteKey(kind, rec) IN
    IF RemoteOf(kind, k, v) # rec THEN RemoteOf(kind, k, v)
    ELSE CHOOSE x \in {RemoteOf(kind, k, w) : w \in Variants} : x # rec

AlteredPages(kind, pages, p, v) ==
    [i \in 1..Len(pages) |->
        [j \in 1..Len(pages[i]) |->
            IF kind = "projects" /\ pages[i][j].id # p
            THEN pages[i][j]
            ELSE Altered(kind, pages[i][j], v)]]

ProjectChange(p) ==
    /\ changes < MaxChanges
    /\ \A r \in RunIds : ~Running(runs[r])
    /\ \E i \in 1..Len(remote[<<"projects", 0>>].pages) :
          \E j \in 1..Len(remote[<<"projects", 0>>].pages[i]) :
              remote[<<"projects", 0>>].pages[i][j].id = p
    /\ \E v \in Variants :
          remote' = [u \in Urls |->
                        IF u[1] = "projects" \/ u[2] = p
                        THEN [remote[u] EXCEPT !.pages = AlteredPages(u[1], @, p, v)]
                        ELSE remote[u]]
    /\ changes' = changes + 1
    /\ UNCHANGED <<store, runs, triggers, served, last, prev, process>>

NextChange ==
    \/ \E p \in ProjectIds : ProjectChange(p)
    \/ \E r \in RunIds :
        \/ Cron(r)
        \/ FetchOk(r)
        \/ UpdateOk(r)
        \/ BulkOk(r)
        \/ CountOk(r)

SpecChange == Init /\ [][NextChange]_vars

-----------------------------------------------------------------------------
(* Reading a run's history and the store *)

Last(seq) == seq[Len(seq)]

RECURSIVE Flatten(_)
Flatten(pages) == IF pages = <<>> THEN <<>> ELSE Head(pages) \o Flatten(Tail(pages))

KindRank(kind) ==
    CASE kind = "projects"       -> 0
      [] kind = "members"        -> 1
      [] kind = "commits"        -> 2
      [] kind = "merge_requests" -> 3
      [] kind = "issues"         -> 4

IsUpdateOne(op) == op.op = "updateOne"

(* the iteration of the project loop the j-th operation of a log belongs to *)
Iteration(log, j) == Cardinality({i \in 1..j : IsUpdateOne(log[i])})

FilterOf(kind, pid, rec) ==
    CASE kind = "projects"       -> ProjectFilter(ProjectDoc(rec))
      [] kind = "members"        -> MemberFilter(pid, rec)
      [] kind = "commits"        -> CommitFilter(pid, rec)
      [] kind = "merge_requests" -> MergeRequestFilter(pid, rec)
      [] kind = "issues"         -> IssueFilter(pid, rec)

DocOf(kind, pid, rec) ==
    CASE kind = "projects"       -> ProjectDoc(rec)
      [] kind = "members"        -> MemberDoc(pid, rec)
      [] kind = "commits"        -> CommitDoc(pid, rec)
      [] kind = "merge_requests" -> MergeRequestDoc(pid, rec)
      [] kind = "issues"         -> IssueDoc(pid, rec)

(* the natural key of a stored document *)
NaturalKey(col, d) ==
    CASE col = "projects"       -> <<d.project_id>>
      [] col = "members"        -> <<d.project_id, d.user_id>>
      [] col = "commits"        -> <<d.project_id, d.sha>>
      [] col = "merge_requests" -> <<d.project_id, d.iid>>
      [] col = "issues"         -> <<d.project_id, d.iid>>

UniqueKeys(st) ==
    \A col \in CollectionSet : \A i, j \in 1..Len(st[col]) :
        NaturalKey(col, st[col][i]) = NaturalKey(col, st[col][j]) => i = j

(* the listing of a URL as far as the remote has answered it *)
Listed(u) == Flatten(remote[u].pages)

(* the trailing n operations of a log are the fetches of pages 1..n of a listing *)
EndsWithWalk(log, kind, pid, n) ==
    /\ Len(log) >= n
    /\ \A i \in 1..n : log[Len(log) - n + i] = FetchOp(kind, pid, i)

-----------------------------------------------------------------------------
(* C1: run idempotence.  Of two complete runs that ended one after the other
   with no change of any remote listing from the start of the first to the
   end of the second, whatever the store was before the first, the second
   leaves the store as the first left it: the same documents in each of the
   five collections, the same counts in the summary, and no natural key
   stored twice. *)
RunIdempotent ==
    (last.complete /\ prev.complete /\ last.gen = prev.gen) =>
        /\ last.store = prev.store
        /\ last.counts = prev.counts
        /\ last.counts = [i \in 1..Len(Collections) |-> Len(last.store[Collections[i]])]
        /\ UniqueKeys(last.store)

(* two complete runs against a snapshot that replaced an earlier one: the
   first of the two started from a store that already had documents, and
   wrote member, commit, merge-request or issue documents *)
RunIdempotentWitness ==
    /\ last.complete /\ prev.complete
    /\ last.gen = prev.gen /\ last.gen > 0
    /\ triggers = MaxRepeats
    /\ \E col \in CollectionSet \ {"projects"} : Len(last.store[col]) > 0

-----------------------------------------------------------------------------
(* C2: pagination.  While paginatedGet awaits a fetch, the fetches of its
   call are those of pages 1, 2, ... up to the awaited one, in that order and
   each with per_page=100, and it holds the concatenation of the pages before
   the awaited one, all non-empty.  When it has returned, the listing has
   answered an empty page k+1 after k non-empty ones, the call made exactly
   the k+1 fetches of pages 1..k+1, and it returned the concatenation of
   pages 1..k: the walk ends at the first empty page and nowhere else. *)
WalkOf(s, kind, pid, returned) ==
    LET u == <<kind, pid>>
        k == Len(remote[u].pages)
        before == IF returned THEN Len(s.log) - 1 ELSE Len(s.log)
        walk == SubSeq(s.log, 1, before) IN
    /\ \A i \in 1..Len(s.log) : s.log[i].op = "fetch" => s.log[i].per_page = 100
    /\ IF returned
       THEN /\ remote[u].done
            /\ \A i \in 1..k : Len(remote[u].pages[i]) > 0
            /\ EndsWithWalk(walk, kind, pid, k + 1)
            /\ before > k + 1 =>
                  ~(walk[before - k - 1].op = "fetch" /\ walk[before - k - 1].kind = kind
                    /\ walk[before - k - 1].pid = pid)
       ELSE /\ EndsWithWalk(walk, kind, pid, s.page)
            /\ k >= s.page - 1
            /\ \A i \in 1..(s.page - 1) : Len(remote[u].pages[i]) > 0
            /\ s.results = Flatten(SubSeq(remote[u].pages, 1, s.page - 1))

PaginationWalk ==
    \A r \in RunIds : LET s == runs[r] IN
        (Running(s) /\ s.gen = changes) =>
            \A op \in s.inflight :
                /\ op.op = "fetch" => op.page = s.page /\ WalkOf(s, op.kind, op.pid, FALSE)
                /\ op.op = "bulkWrite" =>
                      /\ WalkOf(s, op.kind, op.pid, TRUE)
                      /\ s.results = Listed(<<op.kind, op.pid>>)
                /\ (op.op = "updateOne" /\ s.idx = 1) =>
                      /\ WalkOf(s, "projects", 0, TRUE)
                      /\ s.projects = Listed(<<"projects", 0>>)
                /\ (op.op = "fetch" /\ op.page = 1 /\ op.kind \in Kinds \ {"members"}
                    /\ Len(s.log) > 1 /\ s.log[Len(s.log) - 1].op = "fetch") =>
                      /\ WalkOf(s, s.log[Len(s.log) - 1].kind, op.pid, TRUE)
                      /\ Listed(<<s.log[Len(s.log) - 1].kind, op.pid>>) = <<>>

(* a listing of two non-empty pages, each shorter than per_page, walked to
   its empty third page: three fetches, the two records handed to bulkWrite *)
PaginationWalkWitness ==
    \E r \in RunIds : \E op \in runs[r].inflight :
        /\ op.op = "bulkWrite"
        /\ runs[r].gen = changes
        /\ Len(remote[<<op.kind, op.pid>>].pages) = 2
        /\ Len(runs[r].results) = 2
        /\ EndsWithWalk(SubSeq(runs[r].log, 1, Len(runs[r].log) - 1), op.kind, op.pid, 3)

-----------------------------------------------------------------------------
(* a run whose last fetch was answered with a non-success status *)
FetchFailed(s) == s.res.status # 0 /\ ~ResOk(s.res.status)

(* C3: a fetch error ends the page walk, with no retry.  When page n of a
   listing is answered with a non-success status, the call ends with an error
   that carries the URL of the listing and the status and status text of the
   response; nothing is returned to the caller, which holds no record of the
   listing; the fetches of the call are those of pages 1..n, each made once,
   and the failed fetch is the last operation of the run: page n is not
   asked for again and page n+1 is never asked for. *)
FetchErrorAborts ==
    \A r \in RunIds : LET s == runs[r] IN
        FetchFailed(s) =>
            /\ s.log # <<>>
            /\ Last(s.log).op = "fetch"
            /\ s.err = <<[name |-> "GitLab API error",
                          status |-> s.res.status,
                          statusText |-> s.res.statusText,
                          url |-> [path |-> PathOf(Last(s.log).kind), id |-> Last(s.log).pid]]>>
            /\ s.err[1].status \in {e.status : e \in ErrorStatuses}
            /\ s.results = <<>> /\ s.ops = <<>>
            /\ s.inflight = {}
            /\ EndsWithWalk(s.log, Last(s.log).kind, Last(s.log).pid, Last(s.log).page)
            /\ Cardinality({i \in 1..Len(s.log) :
                              /\ s.log[i] = Last(s.log)
                              /\ Iteration(s.log, i) = Iteration(s.log, Len(s.log))}) = 1

(* the second page of a listing answered 404 Not Found after a first page of
   records *)
FetchErrorAbortsWitness ==
    \E r \in RunIds : LET s == runs[r] IN
        /\ FetchFailed(s)
        /\ s.res.status = 404
        /\ s.log # <<>>
        /\ Last(s.log).op = "fetch" /\ Last(s.log).page = 2
        /\ Last(s.log).kind \in Kinds

-----------------------------------------------------------------------------
(* C4: a failed listing fetch of an entity kind of a project B is fatal for
   the run.  The run is in Failed; every write it made before is still in the
   store, each key it wrote being there; in the iteration of B no write was
   made for the failing kind or a kind after it; B is the project the loop
   had reached in the listing, and the failed fetch is the last operation of
   the run, so no project after B is fetched or written. *)
FatalAbort ==
    \A r \in RunIds : LET s == runs[r] n == Len(s.log) IN
        (FetchFailed(s) /\ n > 0 /\ Last(s.log).kind \in Kinds) =>
            /\ s.pc = "Failed"
            /\ s.inflight = {}
            /\ Last(s.log).op = "fetch"
            /\ \A j \in 1..n : IsWrite(s.log[j]) =>
                  \A f \in s.log[j].filters : Matching(store[s.log[j].kind], f) # {}
            /\ \A j \in 1..n :
                  (s.log[j].op = "bulkWrite" /\ Iteration(s.log, j) = Iteration(s.log, n)) =>
                      KindRank(s.log[j].kind) < KindRank(Last(s.log).kind)
            /\ \A j \in 1..n :
                  (IsUpdateOne(s.log[j]) /\ Iteration(s.log, j) = Iteration(s.log, n)) =>
                      s.log[j].pid = Last(s.log).pid
            /\ s.gen = changes =>
                  /\ Iteration(s.log, n) <= Len(Listed(<<"projects", 0>>))
                  /\ Listed(<<"projects", 0>>)[Iteration(s.log, n)].id = Last(s.log).pid

(* the commit listing of the second project answers 500 after the first
   project was synced with a bulk write, and the second project's own
   record was saved *)
FatalAbortWitness ==
    \E r \in RunIds : LET s == runs[r] n == Len(s.log) IN
        /\ FetchFailed(s) /\ n > 0
        /\ s.res.status = 500
        /\ Last(s.log).kind = "commits"
        /\ Iteration(s.log, n) = 2
        /\ \E j \in 1..n : s.log[j].op = "bulkWrite" /\ Iteration(s.log, j) = 1
        /\ Len(store["projects"]) = 2

-----------------------------------------------------------------------------
(* the projects of the listing, and the listings a complete run walks *)
ListedProjects == {Listed(<<"projects", 0>>)[i].id : i \in 1..Len(Listed(<<"projects", 0>>))}
Walked == {<<"projects", 0>>} \cup (Kinds \X ListedProjects)

(* where the record that holds a key last stands in a listing *)
LastIndex(L, kind, pid, f) ==
    CHOOSE i \in 1..Len(L) :
        /\ FilterOf(kind, pid, L[i]) = f
        /\ \A j \in (i + 1)..Len(L) : FilterOf(kind, pid, L[j]) # f

(* C5: overwrite by natural key.  When a complete run has ended on a store
   that the complete run before it left, then for every record the remote
   listed to it whose natural key was already stored, the collection holds
   exactly one document of that key, and the document is the one mapped from
   the record as the remote listed it to this run: every synced field has the
   value of the second observation. *)
NaturalKeyOverwrite ==
    (last.complete /\ prev.complete /\ last.gen = changes) =>
        \A u \in Walked : LET kind == u[1] pid == u[2] L == Listed(u) IN
            \A i \in 1..Len(L) : LET f == FilterOf(kind, pid, L[i]) IN
                Matching(prev.store[kind], f) # {} =>
                    /\ Cardinality(Matching(last.store[kind], f)) = 1
                    /\ last.store[kind][FirstMatch(last.store[kind], f)]
                          = DocOf(kind, pid, L[LastIndex(L, kind, pid, f)])

(* a merge request stored as opened by one run and listed as merged to the
   next: one document of its key, in state merged *)
NaturalKeyOverwriteWitness ==
    /\ last.complete /\ prev.complete /\ last.gen = changes
    /\ Len(prev.store["merge_requests"]) = 1
    /\ Len(last.store["merge_requests"]) = 1
    /\ prev.store["merge_requests"][1].state = "opened"
    /\ last.store["merge_requests"][1].state = "merged"
    /\ last.store["merge_requests"][1].merged_at # Null
    /\ NaturalKey("merge_requests", prev.store["merge_requests"][1])
          = NaturalKey("merge_requests", last.store["merge_requests"][1])

-----------------------------------------------------------------------------
(* C6: uniqueness of the natural key.  In every reachable state, whatever
   runs have completed or were cut short and whatever the remote listed to
   them, no collection holds two documents of one natural key: project_id
   in projects, (project_id, user_id) in members, (project_id, sha) in
   commits, (project_id, iid) in merge_requests and in issues. *)
NaturalKeyUnique == UniqueKeys(store)

(* a bulk write of two operations on one key, from a listing that gave the
   key twice, has resolved and left one document *)
NaturalKeyUniqueWitness ==
    \E r \in RunIds : \E j \in 1..Len(runs[r].log) : LET op == runs[r].log[j] IN
        /\ op.op = "bulkWrite"
        /\ op \notin runs[r].inflight
        /\ op.docs = 2
        /\ Cardinality(op.filters) = 1
        /\ Len(store[op.kind]) = 1

-----------------------------------------------------------------------------
(* the j-th operation of a log is the fetch of the first page of a listing
   of an entity kind, and the call did not go on to the second page: the
   first page was empty *)
EmptyListingAt(log, j) ==
    /\ j < Len(log)
    /\ log[j].op = "fetch" /\ log[j].kind \in Kinds /\ log[j].page = 1
    /\ log[j + 1] # FetchOp(log[j].kind, log[j].pid, 2)

(* C7: an empty listing is short-circuited.  When the first page of the
   listing of members, commits, merge requests or issues of a project is
   empty, the syncer makes no write call: the operation that follows the
   fetch is the first one of the next step and not a bulkWrite, no bulkWrite
   is ever issued with an empty batch, and the count the syncer reports is 0.
   With no write call its collection is as it was. *)
EmptyListingShortCircuit ==
    \A r \in RunIds : LET s == runs[r] IN
        /\ \A j \in 1..Len(s.log) :
              /\ s.log[j].op = "bulkWrite" => s.log[j].docs > 0 /\ s.log[j].filters # {}
              /\ EmptyListingAt(s.log, j) =>
                    /\ ~IsWrite(s.log[j + 1]) \/ s.log[j + 1] \in
                          {UpdateOneOp(p, [project_id |-> p]) : p \in ProjectIds}
                    /\ s.log[j + 1].kind # s.log[j].kind
                    /\ s.log[j].kind # "issues" =>
                          /\ s.log[j + 1].op = "fetch"
                          /\ KindRank(s.log[j + 1].kind) = KindRank(s.log[j].kind) + 1
        /\ (Len(s.log) > 1 /\ EmptyListingAt(s.log, Len(s.log) - 1)) => s.n = 0

(* a project with members and no commits: the member documents are written,
   the empty commit listing is followed by the merge-request listing, and the
   reported count is 0 *)
EmptyListingShortCircuitWitness ==
    \E r \in RunIds : LET s == runs[r] n == Len(s.log) IN
        /\ n > 3
        /\ s.log[n - 2].op = "bulkWrite" /\ s.log[n - 2].kind = "members"
        /\ s.log[n - 1] = FetchOp("commits", s.log[n - 2].pid, 1)
        /\ s.log[n] = FetchOp("merge_requests", s.log[n - 2].pid, 1)
        /\ s.n = 0
        /\ store["commits"] = <<>> /\ store["members"] # <<>>

-----------------------------------------------------------------------------
(* C8: the statistics of a commit.  Every document syncCommits hands to
   bulkWrite has additions, deletions and total: the values of the stats
   object of the remote commit it was mapped from when the commit has one,
   and 0, 0 and 0 when it has none; mapping a commit with no stats raises no
   error, the run goes on to the write.  The stored commit documents all have
   the three fields as numbers. *)
StatsOf(d) == [additions |-> d.additions, deletions |-> d.deletions, total |-> d.total]

CommitStatsDefault ==
    /\ \A r \in RunIds : LET s == runs[r] IN
          \A op \in s.inflight : (op.op = "bulkWrite" /\ op.kind = "commits") =>
              /\ s.err = <<>>
              /\ Len(s.ops) = Len(s.results)
              /\ \A i \in 1..Len(s.results) : LET c == s.results[i] d == s.ops[i].set IN
                    /\ {"additions", "deletions", "total"} \subseteq DOMAIN d
                    /\ "stats" \in DOMAIN c => StatsOf(d) = c.stats
                    /\ "stats" \notin DOMAIN c =>
                          StatsOf(d) = [additions |-> 0, deletions |-> 0, total |-> 0]
    /\ \A i \in 1..Len(store["commits"]) : LET d == store["commits"][i] IN
          /\ {"additions", "deletions", "total"} \subseteq DOMAIN d
          /\ d.additions \in Nat /\ d.deletions \in Nat /\ d.total \in Nat

(* a commit listing with a commit that has no stats and one that has them,
   both mapped and handed to bulkWrite *)
CommitStatsDefaultWitness ==
    \E r \in RunIds : LET s == runs[r] IN
        /\ \E op \in s.inflight : op.op = "bulkWrite" /\ op.kind = "commits"
        /\ \E i, j \in 1..Len(s.results) :
              /\ "stats" \notin DOMAIN s.results[i]
              /\ "stats" \in DOMAIN s.results[j]
              /\ s.ops[i].set.total = 0
              /\ s.ops[j].set.additions > 0

-----------------------------------------------------------------------------
(* b is the first operation after the step `kind` of project pid is over *)
StartsNextStep(kind, pid, b) ==
    CASE kind = "members"        -> b = FetchOp("commits", pid, 1)
      [] kind = "commits"        -> b = FetchOp("merge_requests", pid, 1)
      [] kind = "merge_requests" -> b = FetchOp("issues", pid, 1)
      [] OTHER                   -> IsUpdateOne(b) \/ b = CountOp("projects")

(* b may be issued right after a *)
Follows(a, b) ==
    CASE a.op = "fetch" ->
            \/ b = FetchOp(a.kind, a.pid, a.page + 1)
            \/ a.kind # "projects" /\ b.op = "bulkWrite" /\ b.kind = a.kind /\ b.pid = a.pid
            \/ StartsNextStep(a.kind, a.pid, b)
      [] a.op = "updateOne" -> b = FetchOp("members", a.pid, 1)
      [] a.op = "bulkWrite" -> StartsNextStep(a.kind, a.pid, b)
      [] a.op = "countDocuments" ->
            \E i \in 1..(Len(Collections) - 1) :
                a = CountOp(Collections[i]) /\ b = CountOp(Collections[i + 1])

Min(a, b) == IF a < b THEN a ELSE b

(* C9: the order of a run.  The operations of a run begin with the walk of
   the project listing; each operation is followed only by the next page of
   the same listing, the write of the same step, or the first operation of
   the next step in the order project upsert, members, commits, merge
   requests, issues, next project; the project upserts are those of the
   listed projects in listing order; and an operation is issued only when
   every earlier one has settled: while the run is running exactly the last
   operation it issued is in flight, so never more than one. *)
SequentialOrder ==
    \A r \in RunIds : LET s == runs[r] n == Len(s.log) IN
        /\ n > 0 => s.log[1] = FetchOp("projects", 0, 1)
        /\ \A j \in 1..(n - 1) : Follows(s.log[j], s.log[j + 1])
        /\ Cardinality(s.inflight) <= 1
        /\ Running(s) => n > 0 /\ s.inflight = {Last(s.log)}
        /\ ~Running(s) => s.inflight = {}
        /\ Running(s) =>
              LET saved == SelectSeq(s.log, IsUpdateOne) IN
              /\ Len(saved) = Min(s.idx, Len(s.projects))
              /\ \A i \in 1..Len(saved) : saved[i].pid = s.projects[i].id

(* the run is at the issue listing of the second project, after a bulk write
   for the first: every step of the first project came before the upsert of
   the second *)
SequentialOrderWitness ==
    \E r \in RunIds : LET s == runs[r] n == Len(s.log) IN
        /\ Running(s) /\ s.idx = 2 /\ s.pc = "issues"
        /\ s.projects[1].id # s.projects[2].id
        /\ \E j \in 1..n : s.log[j].op = "bulkWrite" /\ Iteration(s.log, j) = 1
        /\ \E j \in 1..n : s.log[j] = FetchOp("commits", s.projects[2].id, 1)

-----------------------------------------------------------------------------
(* the state of the orchestrator *)
Status(s) == IF Running(s) THEN "Running" ELSE s.pc

(* C10: the states of a run.  A run that is not running (Idle or Failed)
   changes only by starting: it becomes Running, and the run that starts is
   the same whether the state was Idle or Failed, nothing of the ended run
   being kept.  A running run ends in Idle, having met no error and printed
   the five counts of the summary, or in Failed, with the error it caught.
   There is no other change of state. *)
OrchestratorStep ==
    \A r \in RunIds : LET s == runs[r] t == runs'[r] IN
        /\ (~Running(s) /\ t # s) =>
              /\ Status(t) = "Running"
              /\ t = PaginatedGet([NewRun EXCEPT !.gen = changes], "projects", 0)
        /\ (Running(s) /\ ~Running(t)) =>
              /\ t.inflight = {}
              /\ t.pc = "Idle" => t.err = <<>> /\ ~FetchFailed(t)
                                  /\ Len(t.counts) = Len(Collections)
              /\ t.pc = "Failed" => t.err # <<>>
        /\ Status(s) \in {"Idle", "Running", "Failed"}
        /\ Running(s) => s.err = <<>>

OrchestratorStateMachine == [][OrchestratorStep]_vars

(* a run has completed after the run before it failed *)
OrchestratorStateMachineWitness ==
    /\ last.complete /\ prev.failed
    /\ \E r \in RunIds : runs[r].pc = "Idle" /\ Len(runs[r].counts) = Len(Collections)
    /\ store["projects"] # <<>>

-----------------------------------------------------------------------------
(* C11: at most one run is active.  In every reachable state, however the
   firings of the cadence interleave with the progress of the runs, no two
   activations of runSync are running at once: a firing that finds a run in
   progress starts no second one. *)
AtMostOneRunning ==
    Cardinality({r \in RunIds : Running(runs[r])}) <= 1

-----------------------------------------------------------------------------
KeysOf(st, col) == {NaturalKey(col, st[col][i]) : i \in 1..Len(st[col])}

(* a write awaited by some run names the key of document d of collection col *)
WriteNames(col, d) ==
    \E r \in RunIds : \E op \in runs[r].inflight :
        /\ IsWrite(op) /\ op.kind = col
        /\ \E f \in op.filters : Matches(d, f)

(* C12: nothing is deleted.  In every step, every collection keeps every
   natural key it holds and every document stays where it is; a document
   changes only in a step that resolves a write naming its key.  And when a
   complete run has followed a complete run, every document the earlier run
   left whose key the remote no longer lists is in the store as it was, with
   every field unchanged. *)
NoDeletionStep ==
    \A col \in CollectionSet :
        /\ KeysOf(store, col) \subseteq KeysOf(store', col)
        /\ Len(store'[col]) >= Len(store[col])
        /\ \A i \in 1..Len(store[col]) :
              store'[col][i] # store[col][i] =>
                  /\ NaturalKey(col, store'[col][i]) = NaturalKey(col, store[col][i])
                  /\ WriteNames(col, store[col][i])

(* document d of collection col is listed by none of the listings walked *)
Unlisted(col, d) ==
    \A u \in Walked : u[1] = col =>
        \A j \in 1..Len(Listed(u)) : ~Matches(d, FilterOf(col, u[2], Listed(u)[j]))

AbsentKept ==
    (last.complete /\ prev.complete /\ last.gen = changes) =>
        \A col \in CollectionSet : \A i \in 1..Len(prev.store[col]) :
            Unlisted(col, prev.store[col][i]) =>
                /\ Len(last.store[col]) >= i
                /\ last.store[col][i] = prev.store[col][i]

NoDeletion == [][NoDeletionStep]_vars /\ []AbsentKept

(* a member stored by one run, gone from the member listing of its project
   when the next run walks it, is still stored after that run *)
NoDeletionWitness ==
    /\ last.complete /\ prev.complete /\ last.gen = changes
    /\ \E i \in 1..Len(last.store["members"]) : LET d == last.store["members"][i] IN
          /\ d.project_id \in ListedProjects
          /\ remote[<<"members", d.project_id>>] = [pages |-> <<>>, done |-> TRUE]
          /\ d = prev.store["members"][i]

-----------------------------------------------------------------------------
(* C13: the frame of a syncer.  In every step a run takes while the syncer
   of an entity kind is at work for a project, the other four collections
   are unchanged, the documents of other projects in the syncer's own
   collection are unchanged, and every document the step inserts or changes
   has the project_id of that project.  So the syncer of merge requests never
   touches an issue, nor the syncer of issues a merge request, whatever their
   iid. *)
PartitionFrameStep ==
    \A r \in RunIds : LET s == runs[r] IN
        (s.pc \in Kinds /\ runs'[r] # s) =>
            LET col == s.pc
                pid == CurrentProject(s).id IN
            /\ \A other \in CollectionSet \ {col} : store'[other] = store[other]
            /\ Len(store'[col]) >= Len(store[col])
            /\ \A i \in 1..Len(store[col]) :
                  store[col][i].project_id # pid => store'[col][i] = store[col][i]
            /\ \A i \in 1..Len(store'[col]) :
                  (i > Len(store[col]) \/ store'[col][i] # store[col][i]) =>
                      store'[col][i].project_id = pid

PartitionFrame == [][PartitionFrameStep]_vars

(* a merge request and an issue of one project with the same iid, each
   stored in its own collection with its own fields, after the bulk write
   of the issues resolved *)
PartitionFrameWitness ==
    /\ Len(store["merge_requests"]) = 1 /\ Len(store["issues"]) = 1
    /\ store["merge_requests"][1].iid = store["issues"][1].iid
    /\ store["merge_requests"][1].project_id = store["issues"][1].project_id
    /\ "source_branch" \in DOMAIN store["merge_requests"][1]
    /\ "labels" \in DOMAIN store["issues"][1]
    /\ "source_branch" \notin DOMAIN store["issues"][1]
    /\ \E r \in RunIds : Len(runs[r].log) > 0 /\ Last(runs[r].log).op # "bulkWrite"
                         /\ runs[r].n = 1

-----------------------------------------------------------------------------
(* C14: one bulk write, and the count.  A syncer that drained a non-empty
   listing hands bulkWrite one upsert per record drained, in listing order,
   each with the natural key of its record as filter and the mapped document
   as $set; the log of a run has no second bulkWrite of a kind in one
   iteration of the project loop, and a walk that went beyond page 1 is
   followed by the bulkWrite of its kind; the count the syncer returns is the
   number of records drained, the sum of the lengths of the pages, whatever
   the collection already holds. *)
RECURSIVE SumLen(_)
SumLen(pages) == IF pages = <<>> THEN 0 ELSE Len(Head(pages)) + SumLen(Tail(pages))

OneBulkWrite ==
    \A r \in RunIds : LET s == runs[r] n == Len(s.log) IN
        /\ \A op \in s.inflight : op.op = "bulkWrite" =>
              /\ Len(s.results) > 0
              /\ op.docs = Len(s.results)
              /\ s.ops = [i \in 1..Len(s.results) |->
                            [filter |-> FilterOf(op.kind, op.pid, s.results[i]),
                             set |-> DocOf(op.kind, op.pid, s.results[i])]]
              /\ s.gen = changes =>
                    /\ s.results = Listed(<<op.kind, op.pid>>)
                    /\ op.docs = SumLen(remote[<<op.kind, op.pid>>].pages)
        /\ \A j, k \in 1..n :
              (/\ s.log[j].op = "bulkWrite" /\ s.log[k].op = "bulkWrite"
               /\ s.log[j].kind = s.log[k].kind
               /\ Iteration(s.log, j) = Iteration(s.log, k)) => j = k
        /\ \A j \in 1..(n - 1) :
              (/\ s.log[j].op = "fetch" /\ s.log[j].kind \in Kinds /\ s.log[j].page > 1
               /\ s.log[j + 1] # FetchOp(s.log[j].kind, s.log[j].pid, s.log[j].page + 1)) =>
                  /\ s.log[j + 1].op = "bulkWrite"
                  /\ s.log[j + 1].kind = s.log[j].kind
                  /\ s.log[j + 1].pid = s.log[j].pid
                  /\ s.log[j + 1].docs >= s.log[j].page - 1
        /\ (n > 1 /\ s.log[n - 1].op = "bulkWrite") => s.n = s.log[n - 1].docs

(* the second run drains a listing of two pages that give the same key: one
   bulk write of two operations, the count 2, the collection holding the one
   document it held before *)
OneBulkWriteWitness ==
    \E r \in RunIds : LET s == runs[r] n == Len(s.log) IN
        /\ triggers = 2
        /\ n > 3
        /\ s.log[n - 1].op = "bulkWrite" /\ s.log[n - 1].docs = 2
        /\ s.log[n - 2].op = "fetch" /\ s.log[n - 2].page = 3
        /\ s.n = 2
        /\ Len(store[s.log[n - 1].kind]) = 1
        /\ last.complete /\ Len(last.store[s.log[n - 1].kind]) = 1

-----------------------------------------------------------------------------
(* where the documents of project p stand in a collection *)
ProjectDocsAt(st, col, p) == {i \in 1..Len(st[col]) : st[col][i].project_id = p}

(* the documents of project p in a collection are those the run that ended
   last left *)
AsLeft(col, p) ==
    /\ ProjectDocsAt(store, col, p) = ProjectDocsAt(last.store, col, p)
    /\ \A i \in ProjectDocsAt(store, col, p) : store[col][i] = last.store[col][i]

(* the listing of a kind for project p *)
ListingOf(kind, p) == IF kind = "projects" THEN <<"projects", 0>> ELSE <<kind, p>>

(* every record the remote lists of a kind for project p has its document in
   st, mapped from the record (from the last one listed under its key) *)
Reflects(st, kind, p) ==
    LET L == Listed(ListingOf(kind, p)) IN
    \A i \in 1..Len(L) : (kind = "projects" => L[i].id = p) =>
        LET f == FilterOf(kind, p, L[i]) IN
        /\ Matching(st[kind], f) # {}
        /\ st[kind][FirstMatch(st[kind], f)] = DocOf(kind, p, L[LastIndex(L, kind, p, f)])

StepRank(s) == IF s.pc = "saveProject" THEN 0 ELSE KindRank(s.pc)

(* C15: the store of a project in the middle of a run.  While a run is at
   work on a project, the kinds whose step is over reflect the remote as it
   is now, and the kinds whose step has not written yet hold exactly what
   the run before left: nothing makes the five kinds change together.  When
   the run has completed, all five kinds of every listed project reflect the
   remote. *)
MidRunConsistency ==
    /\ \A r \in RunIds : LET s == runs[r] IN
          (Running(s) /\ s.gen = changes /\ s.pc \in Kinds \cup {"saveProject"}) =>
              LET p == CurrentProject(s).id IN
              /\ StepRank(s) > 0 =>
                    /\ Matching(store["projects"], [project_id |-> p]) # {}
                    /\ store["projects"][FirstMatch(store["projects"], [project_id |-> p])]
                          = ProjectDoc(CurrentProject(s))
              /\ \A k \in Kinds : KindRank(k) < StepRank(s) => Reflects(store, k, p)
              /\ (last.complete /\ \A i \in 1..(s.idx - 1) : s.projects[i].id # p) =>
                    \A k \in CollectionSet : KindRank(k) >= StepRank(s) => AsLeft(k, p)
    /\ (last.complete /\ last.gen = changes) =>
          \A p \in ListedProjects : \A k \in CollectionSet : Reflects(last.store, k, p)

(* the second run, after the members and the issues of the project changed
   on the remote, awaits the issue listing: the member documents are the new
   ones, the issue documents are still those of the first run and no longer
   what the remote lists *)
MidRunConsistencyWitness ==
    \E r \in RunIds : LET s == runs[r] IN
        /\ Running(s) /\ s.gen = changes /\ changes > 0 /\ last.complete
        /\ s.pc = "issues"
        /\ LET p == CurrentProject(s).id IN
           /\ ProjectDocsAt(store, "members", p) # {}
           /\ ~AsLeft("members", p)
           /\ Reflects(store, "members", p)
           /\ ProjectDocsAt(store, "issues", p) # {}
           /\ AsLeft("issues", p)
           /\ ~Reflects(store, "issues", p)


(* ---------------------------------------------------------------------- *)
(* C16  Graceful drain on shutdown: when SIGINT or SIGTERM arrives while a
   run is in progress, the page fetch or write in flight is finished before
   the process exits, and no project iteration is started after the signal:
   once the process has exited no run has an operation in flight, and no
   run's log holds a project upsert issued after the signal. *)
StartedAfterSignal(r) ==
    {j \in (process.at[r] + 1)..Len(runs[r].log) : IsUpdateOne(runs[r].log[j])}

GracefulDrain ==
    process.state = "exited" =>
        \A r \in RunIds : runs[r].inflight = {} /\ StartedAfterSignal(r) = {}

-----------------------------------------------------------------------------
(* a syncer of the run is inside paginatedGet, awaiting a page *)
Fetching(s) == s.pc \in Kinds /\ \E op \in s.inflight : op.op = "fetch"

(* C17: the pages a syncer fetched are discarded when a later page fails.
   No step a run takes while a syncer awaits a page changes the store; and
   when the page is answered with a non-success status the run is in Failed
   with nothing in flight, the records of the earlier pages and the batch
   are gone, and no operation was issued on the failure: the syncer made no
   write at all, and the partition is as it was when the syncer was called. *)
PagesDiscardedStep ==
    \A r \in RunIds : LET s == runs[r] t == runs'[r] IN
        (Fetching(s) /\ t # s) =>
            /\ store' = store
            /\ FetchFailed(t) =>
                  /\ t.pc = "Failed"
                  /\ t.inflight = {}
                  /\ t.results = <<>> /\ t.ops = <<>>
                  /\ t.log = s.log
                  /\ \A j \in 1..Len(t.log) :
                        (t.log[j].op = "bulkWrite"
                            /\ Iteration(t.log, j) = Iteration(t.log, Len(t.log))) =>
                                t.log[j].kind # Last(t.log).kind

PagesDiscarded == [][PagesDiscardedStep]_vars

(* the member listing of a project gave a first page of records and its
   second page was answered with an error: the members partition is empty *)
PagesDiscardedWitness ==
    \E r \in RunIds : LET s == runs[r] IN
        /\ FetchFailed(s) /\ s.pc = "Failed"
        /\ s.log # <<>>
        /\ Last(s.log).op = "fetch" /\ Last(s.log).kind = "members"
        /\ Last(s.log).page = 2
        /\ remote[<<"members", Last(s.log).pid>>].pages # <<>>
        /\ remote[<<"members", Last(s.log).pid>>].pages[1] # <<>>
        /\ store["members"] = <<>>
        /\ store["projects"] # <<>>

-----------------------------------------------------------------------------
(* the fetch a run issued last *)
LastFetch(log) ==
    log[CHOOSE j \in 1..Len(log) :
            /\ log[j].op = "fetch"
            /\ \A k \in (j + 1)..Len(log) : log[k].op # "fetch"]

(* C18: a failure of the project listing leaves the store untouched.  While
   a run is in the project listing none of its steps changes the store; and
   when a page of the listing was answered with a non-success status the run
   is in Failed, it holds no project, and every operation it issued is a
   fetch of a page of the project listing, each page once and in order: no
   write to any partition and no fetch of members, commits, merge requests
   or issues, whatever pages of the listing came before. *)
ListingFailureStep ==
    \A r \in RunIds :
        (runs[r].pc = "projects" /\ runs'[r] # runs[r]) => store' = store

ListingFailureState ==
    \A r \in RunIds : LET s == runs[r] IN
        (FetchFailed(s) /\ s.log # <<>> /\ LastFetch(s.log).kind = "projects") =>
            /\ s.pc = "Failed"
            /\ s.inflight = {}
            /\ s.projects = <<>> /\ s.found = 0
            /\ \A j \in 1..Len(s.log) : s.log[j] = FetchOp("projects", 0, j)

ListingFailureUntouched == [][ListingFailureStep]_vars /\ []ListingFailureState

(* a run had saved a project; in the next run the first page of the
   project listing came with a project and the second page was answered
   with an error: the store is the one the first run left *)
ListingFailureUntouchedWitness ==
    \E r \in RunIds : LET s == runs[r] IN
        /\ FetchFailed(s) /\ s.pc = "Failed"
        /\ Len(s.log) = 2
        /\ Last(s.log) = FetchOp("projects", 0, 2)
        /\ remote[<<"projects", 0>>].pages # <<>>
        /\ remote[<<"projects", 0>>].pages[1] # <<>>
        /\ triggers = 2
        /\ store["projects"] # <<>>

-----------------------------------------------------------------------------
(* document d carries every synced field of the mapping `want` *)
HoldsSynced(d, want) == \A x \in DOMAIN want : x \in DOMAIN d /\ d[x] = want[x]

(* C19: the mirror is complete after a successful run.  When the run that
   ended last completed with no error and the remote has not changed since
   it started, then for the project listing and for the listing of each
   entity kind of each listed project, every record listed has in the
   matching collection a document of its natural key, whose synced fields
   are the mapping of the record listed last under that key: no record the
   run saw is missing from the store. *)
MirrorComplete ==
    (last.complete /\ last.gen = changes) =>
        \A u \in Walked : LET L == Listed(u) IN
            \A i \in 1..Len(L) : LET f == FilterOf(u[1], u[2], L[i]) IN
                \E k \in 1..Len(last.store[u[1]]) :
                    /\ Matches(last.store[u[1]][k], f)
                    /\ HoldsSynced(last.store[u[1]][k],
                                   DocOf(u[1], u[2], L[LastIndex(L, u[1], u[2], f)]))

(* a complete run whose project had a listing that gave one key twice, in
   two different versions: the collection holds the project's one document
   of that key, mapped from the second *)
MirrorCompleteWitness ==
    /\ last.complete /\ last.gen = changes
    /\ last.store["projects"] # <<>>
    /\ \E u \in Walked : LET L == Listed(u) IN
          /\ u[1] \in Kinds
          /\ Len(L) = 2
          /\ L[1] # L[2]
          /\ FilterOf(u[1], u[2], L[1]) = FilterOf(u[1], u[2], L[2])
          /\ Len(last.store[u[1]]) = 1
          /\ HoldsSynced(last.store[u[1]][1], DocOf(u[1], u[2], L[2]))
          /\ ~HoldsSynced(last.store[u[1]][1], DocOf(u[1], u[2], L[1]))

====
